---- MODULE Spec2Model ----
(***************************************************************************)
(* Heterophilic_Benchmarks: the synthetic Mixhop graph generator           *)
(* (generate_mixhop_data.py) and the split and training helpers of         *)
(* BernNet/train_opengsldata.py, as state machines.                        *)
(*                                                                         *)
(* Each component has a specification of its own; the variables of the     *)
(* other components stay at their idle values under it.                    *)
(***************************************************************************)
EXTENDS Integers, Sequences, FiniteSets, TLC

\* ---------------------------------------------------------------- bounds
\* generate_graph: n in 0..MaxN, m in 0..MaxM, m0 in 0..MaxM0
MaxN == 5
MaxM == 2
MaxM0 == 4
\* number of classes c = len(class_ratio) in 1..MaxC
MaxC == 2
\* homophily h = hNum / HDen with hNum in 0..HDen
HDen == 2

\* random_disassortative_splits: label vectors of length 0..MaxLabels with
\* labels in 0..MaxLabel, num_classes in 0..MaxLabel + 1
MaxLabels == 4
MaxLabel == 1

\* get_order: ratio entries in -MaxNegRatio..MaxRatio, masked_index of length
\* 0..MaxMasked (random_splits: 0..MaxMasked labels), seeds
\* split_seed..split_seed + MaxSeedOffset
MaxNegRatio == 1
MaxRatio == 2
MaxMasked == 3
MaxSeedOffset == 1
\* the number of states of the model of Python's random generator
RngMod == 8

\* train_opengsldata: args.run in 0..MaxRun, 0..MaxFixed fixed splits in the
\* wiki-cooc file, test metrics k / MaxMetric for k in 0..MaxMetric
MaxRun == 2
MaxFixed == 2
MaxMetric == 1

\* generate_syn_graph's weights: c = args.c in 1..2 * MaxHalfC
MaxHalfC == 4

\* train: epoch_num in 0..MaxEpochs, early_stopping in 0..MaxStop, validation
\* metrics k / MaxVal for k in 0..MaxVal
MaxEpochs == 5
MaxStop == 2
MaxVal == 2

\* ------------------------------------------------------- program constants
\* the significand of a Python float (an IEEE 754 double) has 53 bits
MantissaBits == 53
\* split_seed = 1234567 (train_opengsldata), the default seed of get_order
SplitSeed == 1234567
\* exponent = 2 (generate_syn_graph)
Exponent == 2

VARIABLES
    \* generate_graph: arguments, program counter, loop variable v
    gargs, gpc, gv,
    \* the graph G: colors[i + 1] is the color of node i, edges are 2-sets
    colors, edges,
    \* us: the sample of the last growth step; draws: calls of get_color
    us, draws,
    \* what generate_graph gave back: "running", "None", "G", or the error
    gresult,
    \* random_disassortative_splits: labels, num_classes, program counter,
    \* the list indices, the loop position in it and the three index lists
    labels, num_classes, dpc, indices, dpos, train_index, val_index, test_index,
    \* get_order / random_splits: rng is the state of Python's global random
    \* generator, ocall the last call (arguments and what it gave back),
    \* owatch a call's arguments and ofirst what the first call with them gave
    rng, ocall, owatch, ofirst,
    \* train_opengsldata: targs holds args.dataset, args.run and the number of
    \* fixed splits of the file; ti is the loop variable i; nsplits and ntrain
    \* count the calls of random_splits and of train; csv holds the lines
    \* appended to opengsl.csv
    targs, tpc, ti, split_seed, nsplits, ntrain, acc_list, csv, tresult,
    \* generate_syn_graph's weights: wc is c, wind the loop variable ind,
    \* wopp opposite_side_class_weight before line 140 and ww after it (a
    \* double); wa and wb the classes of the last color_weight calls, wab and
    \* wba what color_weight(wa, wb) and color_weight(wb, wa) gave, wsumx and
    \* wsumf the sum of color_weight(wa, b) over b # wa, b <= wb, in exact and
    \* in double arithmetic
    wc, wpc, wind, wopp, ww, wa, wb, wab, wba, wsumx, wsumf,
    \* train: the arguments epoch_num and early_stopping, the number of epochs
    \* begun (the loop variable epoch is one less), best_metric, patience,
    \* best_params (None or the state_dict copied), the validation metrics of
    \* the epochs run so far, the number of optimizer steps the model's
    \* parameters come from, and the program counter
    epoch_num, early_stopping, epochs, best_metric, patience, best_params,
    metric_vals, params, trpc

graphVars == <<gargs, gpc, gv, colors, edges, us, draws, gresult>>
disVars ==
    <<labels, num_classes, dpc, indices, dpos, train_index, val_index, test_index>>
orderVars == <<rng, ocall, owatch, ofirst>>
dataVars ==
    <<targs, tpc, ti, split_seed, nsplits, ntrain, acc_list, csv, tresult>>
weightVars == <<wc, wpc, wind, wopp, ww, wa, wb, wab, wba, wsumx, wsumf>>
trainVars ==
    <<epoch_num, early_stopping, epochs, best_metric, patience, best_params,
      metric_vals, params, trpc>>
vars == <<graphVars, disVars, orderVars, dataVars, weightVars, trainVars>>

\* the components at rest
GraphIdle ==
    /\ gargs = [n |-> 0, m |-> 0, m0 |-> 0, hNum |-> 0, c |-> 1]
    /\ gpc = "idle"
    /\ gv = 0
    /\ colors = <<>>
    /\ edges = {}
    /\ us = <<>>
    /\ draws = 0
    /\ gresult = "idle"

DisIdle ==
    /\ labels = <<>>
    /\ num_classes = 0
    /\ dpc = "idle"
    /\ indices = <<>>
    /\ dpos = 0
    /\ train_index = <<>>
    /\ val_index = <<>>
    /\ test_index = <<>>

NoCall == [fn |-> "none"]
OrderIdle ==
    /\ rng = 0
    /\ ocall = NoCall
    /\ owatch = NoCall
    /\ ofirst = NoCall

DataIdle ==
    /\ targs = [dataset |-> "wiki-cooc", run |-> 0, fixed |-> 0]
    /\ tpc = "idle"
    /\ ti = 0
    /\ split_seed = 0
    /\ nsplits = 0
    /\ ntrain = 0
    /\ acc_list = <<>>
    /\ csv = <<>>
    /\ tresult = "idle"

NoFloat == [m |-> <<>>, e |-> 0]
WeightIdle ==
    /\ wc = 1
    /\ wpc = "idle"
    /\ wind = 0
    /\ wopp = 1
    /\ ww = NoFloat
    /\ wa = 0
    /\ wb = 0
    /\ wab = <<0, 0>>
    /\ wba = <<0, 0>>
    /\ wsumx = <<0, 0>>
    /\ wsumf = NoFloat

\* best_params = None
None == <<>>
TrainIdle ==
    /\ epoch_num = 0
    /\ early_stopping = 0
    /\ epochs = 0
    /\ best_metric = 0
    /\ patience = 0
    /\ best_params = None
    /\ metric_vals = <<>>
    /\ params = 0
    /\ trpc = "idle"

\* ------------------------------------------------------------- helpers
Abs(x) == IF x < 0 THEN -x ELSE x
Min(a, b) == IF a < b THEN a ELSE b

RECURSIVE Pow(_, _)
Pow(b, e) == IF e <= 0 THEN 1 ELSE b * Pow(b, e - 1)

\* the nodes of G, numbered from 0
Nodes == {i - 1 : i \in 1..Len(colors)}
Color(u) == colors[u + 1]
Degree(u) == Cardinality({e \in edges : u \in e})

\* get_color: one class of 1..len(class_ratio); every class has ratio 1/c > 0
get_color(c) == 1..c

\* color_weight, as the pair <<a, b>> standing for
\*   (a + b * sqrt(exponent)) * opposite_side_class_weight:
\* exponent ** (c/2 - dist) is exponent^k for c - 2*dist = 2k and
\* exponent^k * sqrt(exponent) for c - 2*dist = 2k + 1 (an odd c).
ExpHalf(twice) ==
    IF twice % 2 = 0 THEN <<Pow(Exponent, twice \div 2), 0>>
    ELSE <<0, Pow(Exponent, (twice - 1) \div 2)>>

\* lines 22-23: the distance of two classes on the ring of c classes
DistNoAbs(col1, col2, c) == Min(col1 - col2, c - (col1 - col2))
Dist(col1, col2, c) == Min(Abs(col1 - col2), c - Abs(col1 - col2))

color_weight(col1, col2, c) ==
    IF 2 * Dist(col1, col2, c) = c THEN <<1, 0>>
    ELSE ExpHalf(c - 2 * Dist(col1, col2, c))

\* get_neighbours: pr[u] before normalisation, in units of
\* opposite_side_class_weight / HDen, again as a pair <<a, b>>;
\* inverse of opposite_side_class_weight is OppositeDenominator(c).
OppositeDenominator(c) ==
    LET S[k \in 0..(c \div 2)] ==
            IF k = 0 THEN 1 ELSE S[k - 1] + 2 * Pow(Exponent, k)
    IN  S[IF c \div 2 >= 1 THEN (c \div 2) - 1 ELSE 0]

pr(u, col, hNum, c) ==
    IF Color(u) = col
    THEN <<Degree(u) * hNum * OppositeDenominator(c), 0>>
    ELSE LET w == color_weight(col, Color(u), c)
         IN  <<Degree(u) * (HDen - hNum) * w[1], Degree(u) * (HDen - hNum) * w[2]>>

Positive(p) == p[1] > 0 \/ p[2] > 0

\* the nodes np.random.choice can return: those of non-zero probability
SupportAnyNode(col, hNum, c) == Nodes
Support(col, hNum, c) == {u \in Nodes : Positive(pr(u, col, hNum, c))}

\* np.random.choice(a, m, False, p): the ordered samples of m distinct nodes
Injective(s) == \A i, j \in 1..Len(s) : i # j => s[i] # s[j]
ChoiceWithReplacement(S, m) == [1..m -> S]
choice(S, m) == {s \in [1..m -> S] : Injective(s)}

Range(s) == {s[i] : i \in 1..Len(s)}

\* ------------------------------------------------------- generate_graph
GraphArgs ==
    [n : 0..MaxN, m : 0..MaxM, m0 : 0..MaxM0, hNum : 0..HDen, c : 1..MaxC]

GraphInit ==
    /\ gargs \in GraphArgs
    /\ gpc = "entry"
    /\ gv = 0
    /\ colors = <<>>
    /\ edges = {}
    /\ us = <<>>
    /\ draws = 0
    /\ gresult = "running"
    /\ DisIdle
    /\ OrderIdle
    /\ DataIdle
    /\ WeightIdle
    /\ TrainIdle

notGraphVars == <<disVars, orderVars, dataVars, weightVars, trainVars>>

\* line 54: the guard of generate_graph
EdgeGuardReversed(m, n) == n > m
EdgeGuard(m, n) == m > n

\* lines 54-56: the guard, then G = nx.Graph()
GenEntry ==
    /\ gpc = "entry"
    /\ IF EdgeGuard(gargs.m, gargs.n)
       THEN gpc' = "done" /\ gresult' = "None"
       ELSE gpc' = "loop" /\ gresult' = "running"
    /\ UNCHANGED <<gargs, gv, colors, edges, us, draws>>
    /\ UNCHANGED notGraphVars

\* lines 58-61: one iteration of the initialisation loop
InitNode ==
    /\ gpc = "loop"
    /\ gv < gargs.m0
    /\ \E col \in get_color(gargs.c) :
          colors' = Append(colors, col)
    /\ edges' = IF gv > 1 THEN edges \cup {{gv, gv - 1}} ELSE edges
    /\ draws' = draws + 1
    /\ gv' = gv + 1
    /\ UNCHANGED <<gargs, gpc, us, gresult>>
    /\ UNCHANGED notGraphVars

\* lines 62-67: one iteration of the growth loop that completes
GrowNode ==
    /\ gpc = "loop"
    /\ gv >= gargs.m0
    /\ gv < gargs.n
    /\ \E col \in get_color(gargs.c) :
          LET S == Support(col, gargs.hNum, gargs.c)
          IN  /\ Nodes # {}
              /\ S # {}
              /\ Cardinality(S) >= gargs.m
              /\ \E s \in choice(S, gargs.m) :
                    /\ us' = s
                    /\ edges' = edges \cup {{gv, u} : u \in Range(s)}
              /\ colors' = Append(colors, col)
    /\ draws' = draws + 1
    /\ gv' = gv + 1
    /\ UNCHANGED <<gargs, gpc, gresult>>
    /\ UNCHANGED notGraphVars

\* line 47: every weight is 0, so norm_pr is 0.0 and the division raises
GrowZeroDivision ==
    /\ gpc = "loop"
    /\ gv >= gargs.m0
    /\ gv < gargs.n
    /\ \E col \in get_color(gargs.c) :
          /\ Nodes # {}
          /\ Support(col, gargs.hNum, gargs.c) = {}
    /\ draws' = draws + 1
    /\ gpc' = "done"
    /\ gresult' = "ZeroDivisionError"
    /\ UNCHANGED <<gargs, gv, colors, edges, us>>
    /\ UNCHANGED notGraphVars

\* line 48: np.random.choice refuses an empty population and a sample
\* larger than the number of non-zero probabilities
GrowValueError ==
    /\ gpc = "loop"
    /\ gv >= gargs.m0
    /\ gv < gargs.n
    /\ \E col \in get_color(gargs.c) :
          LET S == Support(col, gargs.hNum, gargs.c)
          IN  \/ Nodes = {}
              \/ S # {} /\ Cardinality(S) < gargs.m
    /\ draws' = draws + 1
    /\ gpc' = "done"
    /\ gresult' = "ValueError"
    /\ UNCHANGED <<gargs, gv, colors, edges, us>>
    /\ UNCHANGED notGraphVars

\* line 68: return G
GenReturn ==
    /\ gpc = "loop"
    /\ gv >= gargs.m0
    /\ gv >= gargs.n
    /\ gpc' = "done"
    /\ gresult' = "G"
    /\ UNCHANGED <<gargs, gv, colors, edges, us, draws>>
    /\ UNCHANGED notGraphVars

GraphNext ==
    \/ GenEntry
    \/ InitNode
    \/ GrowNode
    \/ GrowZeroDivision
    \/ GrowValueError
    \/ GenReturn

SpecGraph == GraphInit /\ [][GraphNext]_vars

\* ------------------------------------------------------ claims: graph
\* C1: every call of generate_graph with m <= n that returns a graph returns
\* one with exactly n nodes, numbered 0..n-1, each with one color of
\* 1..len(class_ratio).
C1_ExactlyNNodes ==
    (gpc = "done" /\ gresult = "G" /\ gargs.m <= gargs.n) =>
        /\ Nodes = 0..(gargs.n - 1)
        /\ \A u \in Nodes : Color(u) \in 1..gargs.c

\* C2: after every growth step (new node v = gv - 1 >= m0) the sample us has
\* exactly m pairwise distinct nodes, all created before v, and the edges at
\* v are exactly the m edges {v, u} to them: no self-loop, no duplicate, no
\* edge to a node that does not exist yet.
GrowthStepDone == gv > gargs.m0
C2_GrowthStep ==
    GrowthStepDone =>
        LET v == gv - 1
        IN  /\ Len(us) = gargs.m
            /\ Injective(us)
            /\ \A i \in 1..Len(us) : us[i] \in 0..(v - 1)
            /\ {e \in edges : v \in e} = {{v, u} : u \in Range(us)}
            /\ \A e \in edges : v \in e => Cardinality(e) = 2
            /\ Degree(v) = gargs.m
C2_Witness ==
    /\ GrowthStepDone
    /\ gargs.m = 2
    /\ gv = gargs.m0 + 2
    /\ gresult = "G"

\* C3: generate_graph with m > n returns None: no node, no edge, no random
\* class drawn, no error.
C3_NoOpWhenTooManyEdges ==
    (gpc # "entry" /\ gargs.m > gargs.n) =>
        /\ gpc = "done"
        /\ gresult = "None"
        /\ colors = <<>>
        /\ edges = {}
        /\ draws = 0
C3_Witness ==
    /\ gpc = "done"
    /\ gargs.m > gargs.n
    /\ gargs.m0 > 0
    /\ gresult = "None"

\* C14: in a call with m0 >= 1, node 0 has no edge from its creation on: its
\* weight in get_neighbours is 0 for every class of the new node, no growth
\* step has it in its sample, and its degree is 0, also in the returned graph.
C14_NodeZeroIsolated ==
    (gargs.m0 >= 1 /\ 0 \in Nodes) =>
        /\ Degree(0) = 0
        /\ 0 \notin Range(us)
        /\ \A col \in get_color(gargs.c) :
              ~Positive(pr(0, col, gargs.hNum, gargs.c))
C14_Witness ==
    /\ gpc = "done"
    /\ gresult = "G"
    /\ gargs.m0 = 3
    /\ gargs.n = 5
    /\ gargs.m = 2
    /\ Degree(0) = 0
    /\ Degree(1) >= 2
    /\ Degree(4) = 2

\* ------------------------------------------- random_disassortative_splits
Max(a, b) == IF a > b THEN a ELSE b

\* Python's s[lo:hi] on a sequence: a negative bound counts from the end,
\* both bounds are clamped to 0..len(s)
SliceBound(i, n) == IF i < 0 THEN Max(i + n, 0) ELSE Min(i, n)
PySlice(s, lo, hi) ==
    SubSeq(s, SliceBound(lo, Len(s)) + 1, SliceBound(hi, Len(s)))

\* int(len(i) * 0.6) and int(len(i) * 0.8): the double product, truncated;
\* for every length below 100000 it is floor(6k/10) and floor(8k/10)
Int60(k) == (k * 6) \div 10
Int80Rounded(k) == (k * 8 + 5) \div 10
Int80(k) == (k * 8) \div 10

\* (labels == i).nonzero()[0]: the positions (from 0) labelled i, ascending
RECURSIVE NonZero(_, _, _)
NonZero(lab, i, k) ==
    IF k > Len(lab) THEN <<>>
    ELSE (IF lab[k] = i THEN <<k - 1>> ELSE <<>>) \o NonZero(lab, i, k + 1)

\* index[np.random.permutation(index.size)]: index in any order
permutation(index) ==
    {[k \in 1..Len(index) |-> index[pi[k]]] :
        pi \in {q \in [1..Len(index) -> 1..Len(index)] : Injective(q)}}

\* lines 89-91: the three slices of one class
TrainSlice(i) == PySlice(i, 0, Int60(Len(i)))
ValSlice(i) == PySlice(i, Int60(Len(i)), Int80(Len(i)))
TestSliceSkipsOne(i) == PySlice(i, Int80(Len(i)) + 1, Len(i))
TestSlice(i) == PySlice(i, Int80(Len(i)), Len(i))

LabelVectors ==
    UNION {[1..n -> 0..MaxLabel] : n \in 0..MaxLabels}

DisInit ==
    /\ labels \in LabelVectors
    /\ num_classes \in 0..(MaxLabel + 1)
    /\ dpc = "permute"
    /\ indices = <<>>
    /\ dpos = 0
    /\ train_index = <<>>
    /\ val_index = <<>>
    /\ test_index = <<>>
    /\ GraphIdle
    /\ OrderIdle
    /\ DataIdle
    /\ WeightIdle
    /\ TrainIdle

notDisVars == <<graphVars, orderVars, dataVars, weightVars, trainVars>>

\* lines 79-82: one iteration of the loop over the classes
DisPermute ==
    /\ dpc = "permute"
    /\ Len(indices) < num_classes
    /\ \E index \in permutation(NonZero(labels, Len(indices), 1)) :
          indices' = Append(indices, index)
    /\ UNCHANGED <<labels, num_classes, dpc, dpos, train_index, val_index, test_index>>
    /\ UNCHANGED notDisVars

\* lines 84-88: the loop over the classes is over, the three lists are empty
DisStartSlicing ==
    /\ dpc = "permute"
    /\ Len(indices) >= num_classes
    /\ dpc' = "slice"
    /\ dpos' = 1
    /\ train_index' = <<>>
    /\ val_index' = <<>>
    /\ test_index' = <<>>
    /\ UNCHANGED <<labels, num_classes, indices>>
    /\ UNCHANGED notDisVars

\* lines 88-91: one iteration of the loop over indices
DisSlice ==
    /\ dpc = "slice"
    /\ dpos <= Len(indices)
    /\ train_index' = train_index \o TrainSlice(indices[dpos])
    /\ val_index' = val_index \o ValSlice(indices[dpos])
    /\ test_index' = test_index \o TestSlice(indices[dpos])
    /\ dpos' = dpos + 1
    /\ UNCHANGED <<labels, num_classes, dpc, indices>>
    /\ UNCHANGED notDisVars

\* line 92: return the three arrays
DisReturn ==
    /\ dpc = "slice"
    /\ dpos > Len(indices)
    /\ dpc' = "done"
    /\ UNCHANGED <<labels, num_classes, indices, dpos, train_index, val_index, test_index>>
    /\ UNCHANGED notDisVars

DisNext ==
    \/ DisPermute
    \/ DisStartSlicing
    \/ DisSlice
    \/ DisReturn

SpecDis == DisInit /\ [][DisNext]_vars

\* ----------------------------------------------------- claims: the split
\* C4: for a label vector whose labels all lie in 0..num_classes-1 the train,
\* val and test indices returned by random_disassortative_splits are pairwise
\* disjoint, hold no index twice, and together are exactly 0..n-1.
LabelsInRange == \A k \in 1..Len(labels) : labels[k] \in 0..(num_classes - 1)
C4_DisPartition ==
    (dpc = "done" /\ LabelsInRange) =>
        /\ Range(train_index) \cap Range(val_index) = {}
        /\ Range(train_index) \cap Range(test_index) = {}
        /\ Range(val_index) \cap Range(test_index) = {}
        /\ Range(train_index) \cup Range(val_index) \cup Range(test_index)
              = 0..(Len(labels) - 1)
        /\ Len(train_index) + Len(val_index) + Len(test_index) = Len(labels)
C4_Witness ==
    /\ dpc = "done"
    /\ LabelsInRange
    /\ num_classes = 2
    /\ Len(labels) >= 4
    /\ Range(labels) = {0, 1}
    /\ train_index # <<>>
    /\ val_index # <<>>
    /\ Len(test_index) >= 2

\* C11: once a class has been sliced, with k the number of nodes labelled with
\* it, train holds floor(0.6 k) of its indices, val floor(0.8 k) - floor(0.6 k)
\* and test the other k - floor(0.8 k); every index in the three sets is
\* labelled with a class that was sliced.
C11_FloorSlices ==
    dpc \in {"slice", "done"} =>
        /\ \A i \in 0..(dpos - 2) :
              LET k == Cardinality({p \in 1..Len(labels) : labels[p] = i})
                  count(s) == Cardinality({p \in 1..Len(s) : labels[s[p] + 1] = i})
              IN  /\ count(train_index) = (6 * k) \div 10
                  /\ count(val_index) = ((8 * k) \div 10) - ((6 * k) \div 10)
                  /\ count(test_index) = k - ((8 * k) \div 10)
        /\ \A s \in {train_index, val_index, test_index} :
              \A p \in 1..Len(s) : labels[s[p] + 1] \in 0..(dpos - 2)
C11_Witness ==
    /\ dpc = "done"
    /\ num_classes = 2
    /\ Len(labels) = 4
    /\ Cardinality({p \in 1..4 : labels[p] = 0}) = 3
    /\ Len(train_index) = 1
    /\ Len(val_index) = 1
    /\ Len(test_index) = 2
    /\ labels[test_index[2] + 1] = 1

\* ------------------------------------------------ get_order, random_splits
\* Python's random module (a Mersenne Twister) as a small generator: seeding
\* sets the state from the seed alone, every draw advances the state and is
\* a function of it.  cur is the state before the call.
RandomSeedSkipped(seed, cur) == cur
RandomSeed(seed, cur) == seed % RngMod
RngStep(st) == (5 * st + 3) % RngMod
RandBelow(st, k) == st % k

Swap(x, i, j) ==
    [k \in 1..Len(x) |-> IF k = i THEN x[j] ELSE IF k = j THEN x[i] ELSE x[k]]

\* random.shuffle(x): for i in reversed(range(1, len(x))):
\*     j = randbelow(i + 1); x[i], x[j] = x[j], x[i]
\* i counts from 0; the result is <<the shuffled list, the generator state>>
RECURSIVE ShuffleFrom(_, _, _)
ShuffleFrom(x, i, st) ==
    IF i < 1 THEN <<x, st>>
    ELSE LET st1 == RngStep(st)
             j == RandBelow(st1, i + 1)
         IN  ShuffleFrom(Swap(x, i + 1, j + 1), i - 1, st1)
shuffle(x, st) == ShuffleFrom(x, Len(x) - 1, st)

\* list(range(n))
RangeList(n) == [k \in 1..n |-> k - 1]

RECURSIVE Sum(_)
Sum(s) == IF s = <<>> THEN 0 ELSE Head(s) + Sum(Tail(s))

\* int((num / den) * n) for integers: the quotient truncated towards zero.
\* (the double computation gives the same integer for every ratio entry in
\* -2..4 and every n below 8)
IntRatio(num, n, den) ==
    LET q == Abs(num * n) \div Abs(den)
    IN  IF (num * n < 0) = (den < 0) THEN q ELSE 0 - q

\* masked_index[mask]: a tensor indexed by a list of positions (from 0)
Gather(t, mask) == [k \in 1..Len(mask) |-> t[mask[k] + 1]]

\* set(t) of a torch tensor t: the elements are 0-d tensors, hashed by
\* identity, and iterating t makes new ones each time: the set of one
\* evaluation (tag) holds len(t) objects and shares none with another.
ValueSet(t, tag) == Range(t)
TensorSet(t, tag) == {<<tag, k>> : k \in 1..Len(t)}

\* lines 65-71: the six assertions
AssertionsHold(train, val, test) ==
    /\ Cardinality(TensorSet(train, "a65")) = Len(train)
    /\ Cardinality(TensorSet(val, "a66")) = Len(val)
    /\ Cardinality(TensorSet(test, "a67")) = Len(test)
    /\ Cardinality(TensorSet(train, "a69l") \ TensorSet(val, "a69r"))
          = Cardinality(TensorSet(train, "a69"))
    /\ Cardinality(TensorSet(train, "a70l") \ TensorSet(test, "a70r"))
          = Cardinality(TensorSet(train, "a70"))
    /\ Cardinality(TensorSet(val, "a71l") \ TensorSet(test, "a71r"))
          = Cardinality(TensorSet(val, "a71"))

\* get_order(ratio, masked_index, total_node_num, seed) with the generator in
\* state cur: what it gives back and the state it leaves the generator in
get_order(ratio, masked_index, seed, cur) ==
    LET masked_node_num == Len(masked_index)
        sh == shuffle(RangeList(masked_node_num), RandomSeed(seed, cur))
        shuffle_criterion == sh[1]
        tvt_sum == Sum(ratio)
        train_end_index == IntRatio(ratio[1], masked_node_num, tvt_sum)
        val_end_index ==
            train_end_index + IntRatio(ratio[2], masked_node_num, tvt_sum)
        train == Gather(masked_index,
                        PySlice(shuffle_criterion, 0, train_end_index))
        val == Gather(masked_index,
                      PySlice(shuffle_criterion, train_end_index, val_end_index))
        test == Gather(masked_index,
                       PySlice(shuffle_criterion, val_end_index, masked_node_num))
    IN  IF tvt_sum = 0
        THEN [status |-> "ZeroDivisionError", train |-> <<>>, val |-> <<>>,
              test |-> <<>>, rng |-> sh[2]]
        ELSE IF ~AssertionsHold(train, val, test)
        THEN [status |-> "AssertionError", train |-> <<>>, val |-> <<>>,
              test |-> <<>>, rng |-> sh[2]]
        ELSE [status |-> "returned", train |-> train, val |-> val,
              test |-> test, rng |-> sh[2]]

Seeds == {SplitSeed + k : k \in 0..MaxSeedOffset}
\* the ratio lists: three entries, and the default [60, 20, 20]
DefaultRatios == {<<60, 20, 20>>}
Ratios == [1..3 -> (0 - MaxNegRatio)..MaxRatio] \cup DefaultRatios
\* the tensors get_order is called with directly: any values, repeats too
MaskedIndexes == UNION {[1..n -> 0..(MaxMasked - 1)] : n \in 0..MaxMasked}

Key(call) == [masked_index |-> call.masked_index, ratio |-> call.ratio,
              seed |-> call.seed]
Outcome(call) == [status |-> call.status, train |-> call.train,
                  val |-> call.val, test |-> call.test]

\* one call of get_order(ratio, masked_index, len(masked_index), seed), made
\* by fn; again: the watched call had been made before; moved: the generator
\* was not in the state that seeding with this seed gives
Call(fn, ratio, masked_index, seed) ==
    LET r == get_order(ratio, masked_index, seed, rng)
        c == [fn |-> fn, ratio |-> ratio, masked_index |-> masked_index,
              seed |-> seed, status |-> r.status,
              again |-> (ofirst # NoCall),
              moved |-> (rng # RandomSeed(seed, rng)),
              train |-> r.train, val |-> r.val, test |-> r.test]
    IN  /\ ocall' = c
        /\ rng' = r.rng
        /\ ofirst' = IF ofirst = NoCall /\ owatch # NoCall /\ Key(c) = Key(owatch)
                     THEN c ELSE ofirst
        /\ UNCHANGED owatch

notOrderVars == <<graphVars, disVars, dataVars, weightVars, trainVars>>

\* the calls a caller can make
RandomSplitsCalls ==
    [fn : {"random_splits"}, ratio : Ratios,
     masked_index : {RangeList(n) : n \in 0..MaxMasked}, seed : Seeds,
     status : {"pending"}]
GetOrderCalls ==
    [fn : {"get_order"}, ratio : Ratios, masked_index : MaskedIndexes,
     seed : Seeds, status : {"pending"}]

\* one call, from any state of the generator
OrderInit ==
    /\ rng \in 0..(RngMod - 1)
    /\ ocall \in RandomSplitsCalls \cup GetOrderCalls
    /\ owatch = NoCall
    /\ ofirst = NoCall
    /\ GraphIdle
    /\ DisIdle
    /\ DataIdle
    /\ WeightIdle
    /\ TrainIdle

\* lines 75-81: random_splits(labels, ratio, seed); masked_index is
\* y_index_tensor, list(range(len(labels)))
RandomSplits ==
    /\ ocall.fn = "random_splits"
    /\ ocall.status = "pending"
    /\ Call("random_splits", ocall.ratio, ocall.masked_index, ocall.seed)
    /\ UNCHANGED notOrderVars

\* lines 45-72: get_order called on a tensor of the caller's
GetOrder ==
    /\ ocall.fn = "get_order"
    /\ ocall.status = "pending"
    /\ Call("get_order", ocall.ratio, ocall.masked_index, ocall.seed)
    /\ UNCHANGED notOrderVars

OrderNext ==
    \/ RandomSplits
    \/ GetOrder

SpecOrder == OrderInit /\ [][OrderNext]_vars

\* random_splits called again and again with the default ratio list (line
\* 209), other users of the generator drawing in between
RandomSplitsDefault ==
    /\ \E n \in 0..MaxMasked, ratio \in DefaultRatios, seed \in Seeds :
          Call("random_splits", ratio, RangeList(n), seed)
    /\ UNCHANGED notOrderVars

\* another draw from Python's global generator (make_x's shuffle)
OtherDraw ==
    /\ rng' = RngStep(rng)
    /\ UNCHANGED <<ocall, owatch, ofirst>>
    /\ UNCHANGED notOrderVars

SeedInit ==
    /\ rng \in 0..(RngMod - 1)
    /\ ocall = NoCall
    /\ \E n \in 0..MaxMasked, ratio \in DefaultRatios, seed \in Seeds :
          owatch = [masked_index |-> RangeList(n), ratio |-> ratio, seed |-> seed]
    /\ ofirst = NoCall
    /\ GraphIdle
    /\ DisIdle
    /\ DataIdle
    /\ WeightIdle
    /\ TrainIdle

SeedNext ==
    \/ RandomSplitsDefault
    \/ OtherDraw

SpecSeed == SeedInit /\ [][SeedNext]_vars

\* ------------------------------------------------ claims: the global split
Disjoint3(a, b, c) ==
    /\ Range(a) \cap Range(b) = {}
    /\ Range(a) \cap Range(c) = {}
    /\ Range(b) \cap Range(c) = {}

\* C5: random_splits, for any ratio list and n >= 3 labels, returns train,
\* val and test without overlaps whose union is 0..n-1.
C5_RandomSplitsPartition ==
    (/\ ocall.fn = "random_splits"
     /\ ocall.status = "returned"
     /\ Len(ocall.masked_index) >= 3) =>
        /\ Disjoint3(ocall.train, ocall.val, ocall.test)
        /\ Range(ocall.train) \cup Range(ocall.val) \cup Range(ocall.test)
              = 0..(Len(ocall.masked_index) - 1)

\* C6: get_order never returns a train, val or test sequence with a repeated
\* value, or two of them sharing a value, whatever masked_index holds.
C6_PostCondition ==
    (ocall.fn # "none" /\ ocall.status = "returned") =>
        /\ Injective(ocall.train)
        /\ Injective(ocall.val)
        /\ Injective(ocall.test)
        /\ Disjoint3(ocall.train, ocall.val, ocall.test)

\* C7: a call of random_splits with the same number of labels, ratio list and
\* seed as an earlier call returns what that call returned, whatever was
\* drawn from the generator in between.
C7_SameSeedSameSplit ==
    (/\ ocall.fn = "random_splits"
     /\ ofirst # NoCall
     /\ Key(ocall) = Key(owatch)) =>
        Outcome(ocall) = Outcome(ofirst)
C7_Witness ==
    /\ ocall.fn = "random_splits"
    /\ ofirst # NoCall
    /\ Key(ocall) = Key(owatch)
    /\ ocall.again
    /\ ocall.moved
    /\ Len(ocall.masked_index) >= 3
    /\ ocall.status = "returned"

\* ------------------------------------------------------ train_opengsldata
\* lines 146-178: the branch a dataset name takes
DatasetKindNoElse(name) ==
    IF name = "wiki-cooc" THEN "npz" ELSE "attributed"
DatasetKind(name) ==
    IF name = "wiki-cooc" THEN "npz"
    ELSE IF name \in {"blogcatalog", "flickr"} THEN "attributed"
    ELSE "unknown"

DatasetNames == {"wiki-cooc", "blogcatalog", "flickr", "cora", "Flickr"}

DataInit ==
    /\ targs \in [dataset : DatasetNames, run : 0..MaxRun, fixed : 0..MaxFixed]
    /\ tpc = "load"
    /\ ti = 0
    /\ split_seed = 0
    /\ nsplits = 0
    /\ ntrain = 0
    /\ acc_list = <<>>
    /\ csv = <<>>
    /\ tresult = "running"
    /\ GraphIdle
    /\ DisIdle
    /\ OrderIdle
    /\ WeightIdle
    /\ TrainIdle

notDataVars == <<graphVars, disVars, orderVars, weightVars, trainVars>>

\* lines 146-176 and 181-199: the dataset is loaded, split_seed = 1234567
LoadDataset ==
    /\ tpc = "load"
    /\ DatasetKind(targs.dataset) \in {"npz", "attributed"}
    /\ tpc' = "splits"
    /\ split_seed' = SplitSeed
    /\ UNCHANGED <<targs, ti, nsplits, ntrain, acc_list, csv, tresult>>
    /\ UNCHANGED notDataVars

\* lines 149 and 167: the file or the download of the dataset is missing
LoadFails ==
    /\ tpc = "load"
    /\ DatasetKind(targs.dataset) \in {"npz", "attributed"}
    /\ tpc' = "done"
    /\ tresult' = "OSError"
    /\ UNCHANGED <<targs, ti, split_seed, nsplits, ntrain, acc_list, csv>>
    /\ UNCHANGED notDataVars

\* lines 177-178: raise ValueError('dataset does not exist')
LoadUnknown ==
    /\ tpc = "load"
    /\ DatasetKind(targs.dataset) = "unknown"
    /\ tpc' = "done"
    /\ tresult' = "ValueError"
    /\ UNCHANGED <<targs, ti, split_seed, nsplits, ntrain, acc_list, csv>>
    /\ UNCHANGED notDataVars

\* train (lines 89-139) as train_opengsldata sees it: a test metric, or an
\* error when there is no snapshot to load (line 130)
TrainOutcomes ==
    {[status |-> "returned", metric |-> k] : k \in 0..MaxMetric}
        \cup {[status |-> "raised", metric |-> 0]}

\* lines 203-206 and 213-230: split i of the file, then train
RunFixedSplit ==
    /\ tpc = "splits"
    /\ ti < targs.run
    /\ targs.dataset = "wiki-cooc"
    /\ ti < targs.fixed
    /\ \E out \in TrainOutcomes :
          IF out.status = "raised"
          THEN /\ tpc' = "done"
               /\ tresult' = "TrainError"
               /\ UNCHANGED <<ti, acc_list>>
          ELSE /\ acc_list' = Append(acc_list, out.metric)
               /\ ti' = ti + 1
               /\ UNCHANGED <<tpc, tresult>>
    /\ ntrain' = ntrain + 1
    /\ UNCHANGED <<targs, split_seed, nsplits, csv>>
    /\ UNCHANGED notDataVars

\* line 204: train_indices[i] past the splits of the file
RunFixedSplitMissing ==
    /\ tpc = "splits"
    /\ ti < targs.run
    /\ targs.dataset = "wiki-cooc"
    /\ ti >= targs.fixed
    /\ tpc' = "done"
    /\ tresult' = "IndexError"
    /\ UNCHANGED <<targs, ti, split_seed, nsplits, ntrain, acc_list, csv>>
    /\ UNCHANGED notDataVars

\* lines 207-230: random_splits with split_seed, split_seed += 1, then train
RunRandomSplit ==
    /\ tpc = "splits"
    /\ ti < targs.run
    /\ targs.dataset # "wiki-cooc"
    /\ nsplits' = nsplits + 1
    /\ split_seed' = split_seed + 1
    /\ \E out \in TrainOutcomes :
          IF out.status = "raised"
          THEN /\ tpc' = "done"
               /\ tresult' = "TrainError"
               /\ UNCHANGED <<ti, acc_list>>
          ELSE /\ acc_list' = Append(acc_list, out.metric)
               /\ ti' = ti + 1
               /\ UNCHANGED <<tpc, tresult>>
    /\ ntrain' = ntrain + 1
    /\ UNCHANGED <<targs, csv>>
    /\ UNCHANGED notDataVars

\* lines 232-241: one line appended to opengsl.csv
SaveResults ==
    /\ tpc = "splits"
    /\ ti >= targs.run
    /\ csv' = Append(csv, [dataset |-> targs.dataset, metrics |-> acc_list])
    /\ tpc' = "done"
    /\ tresult' = "returned"
    /\ UNCHANGED <<targs, ti, split_seed, nsplits, ntrain, acc_list>>
    /\ UNCHANGED notDataVars

DataNext ==
    \/ LoadDataset
    \/ LoadFails
    \/ LoadUnknown
    \/ RunFixedSplit
    \/ RunFixedSplitMissing
    \/ RunRandomSplit
    \/ SaveResults

SpecData == DataInit /\ [][DataNext]_vars

\* --------------------------------------------- claims: train_opengsldata
\* C9: with a dataset name other than 'wiki-cooc', 'blogcatalog' and 'flickr'
\* train_opengsldata raises ValueError, and no split was generated, no model
\* trained and no line appended to opengsl.csv.
KnownDatasets == {"wiki-cooc", "blogcatalog", "flickr"}
C9_UnknownDataset ==
    (targs.dataset \notin KnownDatasets /\ tpc \notin {"idle", "load"}) =>
        /\ tpc = "done"
        /\ tresult = "ValueError"
        /\ nsplits = 0
        /\ ntrain = 0
        /\ acc_list = <<>>
        /\ csv = <<>>
C9_Witness ==
    /\ targs.dataset = "cora"
    /\ targs.run > 0
    /\ tpc = "done"
    /\ tresult = "ValueError"

\* --------------------------------------------------- doubles (Python float)
\* A positive double is [m, e]: m its significand, MantissaBits bits with the
\* most significant first (m[1] = 1), and e the exponent of its last bit; the
\* value is m * 2^e.  Results are rounded to nearest, ties to even.
Zeros(n) == [i \in 1..n |-> 0]
FloatOne == [m |-> <<1>> \o Zeros(MantissaBits - 1), e |-> 1 - MantissaBits]

\* the carry into position i of a + b + carry over positions 1..n: some
\* position below i produces a carry and every position between passes it on
CarryInto(a, b, n, carry, i) ==
    \E j \in (i + 1)..(n + 1) :
        /\ IF j = n + 1 THEN carry = 1 ELSE a[j] + b[j] = 2
        /\ \A k \in (i + 1)..(j - 1) : a[k] + b[k] = 1

\* a + b + carry for two sequences of n bits, one bit longer on overflow
AddBits(a, b, n, carry) ==
    LET bit(i) == (a[i] + b[i] + (IF CarryInto(a, b, n, carry, i) THEN 1 ELSE 0)) % 2
        low == [i \in 1..n |-> bit(i)]
    IN  IF CarryInto(a, b, n, carry, 0) THEN <<1>> \o low ELSE low

\* bits (at least MantissaBits of them, the first 1) times 2^e, rounded
Round(bits, e) ==
    LET n == Len(bits)
        keep == SubSeq(bits, 1, MantissaBits)
        guard == n > MantissaBits /\ bits[MantissaBits + 1] = 1
        sticky == \E i \in (MantissaBits + 2)..n : bits[i] = 1
        up == guard /\ (sticky \/ keep[MantissaBits] = 1)
        inc == AddBits(keep, Zeros(MantissaBits), MantissaBits, 1)
    IN  IF ~up THEN [m |-> keep, e |-> e + (n - MantissaBits)]
        ELSE IF Len(inc) = MantissaBits
        THEN [m |-> inc, e |-> e + (n - MantissaBits)]
        ELSE [m |-> SubSeq(inc, 1, MantissaBits), e |-> e + (n - MantissaBits) + 1]

\* x + y
FloatAdd(x, y) ==
    LET e0 == Min(x.e, y.e)
        xb == x.m \o Zeros(x.e - e0)
        yb == y.m \o Zeros(y.e - e0)
        n == Max(Len(xb), Len(yb))
        xp == Zeros(n - Len(xb)) \o xb
        yp == Zeros(n - Len(yb)) \o yb
    IN  Round(AddBits(xp, yp, n, 0), e0)

\* x * 2^k
FloatScale(x, k) == [m |-> x.m, e |-> x.e + k]

\* the remainder of r * 2^k divided by d
RECURSIVE Remainder(_, _, _)
Remainder(r, d, k) == IF k = 0 THEN r % d ELSE (2 * Remainder(r, d, k - 1)) % d

\* the next n bits of r / d for 0 <= r < d, and the remainder after them
DivSteps(r, d, n) ==
    <<[k \in 1..n |-> IF 2 * Remainder(r, d, k - 1) >= d THEN 1 ELSE 0],
      Remainder(r, d, n)>>

\* r * 2^k, k = -e, for the least k with r * 2^k >= d
RECURSIVE NormShift(_, _, _)
NormShift(r, d, e) == IF r >= d THEN <<r, e>> ELSE NormShift(2 * r, d, e - 1)

\* 1.0 / d for an integer d >= 1: two bits more than the significand, the
\* last for a remainder that is not 0, then rounded
FloatInverse(d) ==
    LET ns == NormShift(1, d, 0)
        ds == DivSteps(ns[1] - d, d, MantissaBits)
        last == IF ds[2] # 0 THEN 1 ELSE 0
    IN  Round(<<1>> \o ds[1] \o <<last>>, ns[2] - MantissaBits - 1)

\* ------------------------------------------ generate_syn_graph's weights
\* color_weight as the double the code computes, for an even c:
\* exponent ** k is a power of two, the product with the weight w is exact
color_weight_float(col1, col2, c, w) ==
    IF 2 * Dist(col1, col2, c) = c THEN w
    ELSE FloatScale(w, (c - 2 * Dist(col1, col2, c)) \div 2)

WeightInit ==
    /\ wc \in 1..(2 * MaxHalfC)
    /\ wpc = "loop"
    /\ wind = 0
    /\ wopp = 1
    /\ ww = NoFloat
    /\ wa = 0
    /\ wb = 0
    /\ wab = <<0, 0>>
    /\ wba = <<0, 0>>
    /\ wsumx = <<0, 0>>
    /\ wsumf = NoFloat
    /\ GraphIdle
    /\ DisIdle
    /\ OrderIdle
    /\ DataIdle
    /\ TrainIdle

notWeightVars == <<graphVars, disVars, orderVars, dataVars, trainVars>>

\* line 138: what one iteration adds to opposite_side_class_weight
LoopTermOnce(ind) == Pow(Exponent, ind + 1)
LoopTerm(ind) == 2 * Pow(Exponent, ind + 1)

\* lines 137-138: one iteration of the loop over range(int(c / 2) - 1)
WeightLoop ==
    /\ wpc = "loop"
    /\ wind < (wc \div 2) - 1
    /\ wopp' = wopp + LoopTerm(wind)
    /\ wind' = wind + 1
    /\ UNCHANGED <<wc, wpc, ww, wa, wb, wab, wba, wsumx, wsumf>>
    /\ UNCHANGED notWeightVars

\* line 140: opposite_side_class_weight = 1.0 / opposite_side_class_weight
WeightInvert ==
    /\ wpc = "loop"
    /\ wind >= (wc \div 2) - 1
    /\ ww' = FloatInverse(wopp)
    /\ wpc' = "ready"
    /\ UNCHANGED <<wc, wind, wopp, wa, wb, wab, wba, wsumx, wsumf>>
    /\ UNCHANGED notWeightVars

\* lines 39-43: color_weight called for two classes, in both orders
ColorWeightPair ==
    /\ wpc = "ready"
    /\ \E a, b \in 1..wc :
          /\ wa' = a
          /\ wb' = b
          /\ wab' = color_weight(a, b, wc)
          /\ wba' = color_weight(b, a, wc)
    /\ wpc' = "pair"
    /\ UNCHANGED <<wc, wind, wopp, ww, wsumx, wsumf>>
    /\ UNCHANGED notWeightVars

\* the weights of one class a against the other classes are summed (as line 45
\* sums the weights of the nodes): a is chosen, the sum is 0
SumStart ==
    /\ wpc = "ready"
    /\ wc % 2 = 0
    /\ \E a \in 1..wc : wa' = a
    /\ wb' = 0
    /\ wsumx' = <<0, 0>>
    /\ wsumf' = NoFloat
    /\ wpc' = "sum"
    /\ UNCHANGED <<wc, wind, wopp, ww, wab, wba>>
    /\ UNCHANGED notWeightVars

\* the next class b: color_weight(a, b) is added unless b = a
SumStep ==
    /\ wpc = "sum"
    /\ wb < wc
    /\ wb' = wb + 1
    /\ IF wb + 1 = wa
       THEN UNCHANGED <<wsumx, wsumf>>
       ELSE LET x == color_weight(wa, wb + 1, wc)
                f == color_weight_float(wa, wb + 1, wc, ww)
            IN  /\ wsumx' = <<wsumx[1] + x[1], wsumx[2] + x[2]>>
                /\ wsumf' = IF wsumf = NoFloat THEN f ELSE FloatAdd(wsumf, f)
    /\ UNCHANGED <<wc, wpc, wind, wopp, ww, wa, wab, wba>>
    /\ UNCHANGED notWeightVars

SumEnd ==
    /\ wpc = "sum"
    /\ wb >= wc
    /\ wpc' = "summed"
    /\ UNCHANGED <<wc, wind, wopp, ww, wa, wb, wab, wba, wsumx, wsumf>>
    /\ UNCHANGED notWeightVars

WeightNext ==
    \/ WeightLoop
    \/ WeightInvert
    \/ ColorWeightPair
    \/ SumStart
    \/ SumStep
    \/ SumEnd

SpecWeight == WeightInit /\ [][WeightNext]_vars

\* C8: for a class-ratio vector of even length c and classes a, b in 1..c,
\* color_weight(a, b) and color_weight(b, a) are the same value (the same power
\* of the exponent times the same opposite weight).
C8_ColorWeightSymmetric ==
    (wpc = "pair" /\ wc % 2 = 0) => wab = wba
C8_Witness ==
    /\ wpc = "pair"
    /\ wc % 2 = 0
    /\ wc >= 4
    /\ wa > wb + 1
    /\ wab # <<1, 0>>

ImprovesOrEqual(metric_val, best) == metric_val >= best
Improves(metric_val, best) == metric_val > best

\* line 127: patience >= early_stopping
ShouldStopLate(p, stop) == p > stop
ShouldStop(p, stop) == p >= stop

\* line 122: deepcopy(model.state_dict()), the parameters after p optimizer
\* steps; a copy does not follow the later steps
deepcopy(p) == <<p>>

TrainInit ==
    /\ epoch_num \in 0..MaxEpochs
    /\ early_stopping \in 0..MaxStop
    /\ epochs = 0
    /\ best_metric = 0
    /\ patience = 0
    /\ best_params = None
    /\ metric_vals = <<>>
    /\ params = 0
    /\ trpc = "loop"
    /\ GraphIdle
    /\ DisIdle
    /\ OrderIdle
    /\ DataIdle
    /\ WeightIdle

notTrainVars == <<graphVars, disVars, orderVars, dataVars, weightVars>>

\* lines 104-128, an epoch whose validation metric is above best_metric:
\* lines 121-123, then the test of line 127
TrainEpochImproves ==
    /\ trpc = "loop"
    /\ epochs < epoch_num
    /\ \E metric_val \in 0..MaxVal :
          /\ Improves(metric_val, best_metric)
          /\ metric_vals' = Append(metric_vals, metric_val)
          /\ best_metric' = metric_val
    /\ epochs' = epochs + 1
    /\ params' = params + 1
    /\ best_params' = deepcopy(params + 1)
    /\ patience' = 0
    /\ trpc' = IF ShouldStop(0, early_stopping) THEN "test" ELSE "loop"
    /\ UNCHANGED <<epoch_num, early_stopping>>
    /\ UNCHANGED notTrainVars

\* lines 104-128, an epoch whose validation metric is not above best_metric:
\* line 125, then the test of line 127
TrainEpochNoGain ==
    /\ trpc = "loop"
    /\ epochs < epoch_num
    /\ \E metric_val \in 0..MaxVal :
          /\ ~Improves(metric_val, best_metric)
          /\ metric_vals' = Append(metric_vals, metric_val)
    /\ epochs' = epochs + 1
    /\ params' = params + 1
    /\ patience' = patience + 1
    /\ trpc' = IF ShouldStop(patience + 1, early_stopping) THEN "test" ELSE "loop"
    /\ UNCHANGED <<epoch_num, early_stopping, best_metric, best_params>>
    /\ UNCHANGED notTrainVars

\* line 104: range(epoch_num) is exhausted
TrainLoopEnd ==
    /\ trpc = "loop"
    /\ epochs >= epoch_num
    /\ trpc' = "test"
    /\ UNCHANGED <<epoch_num, early_stopping, epochs, best_metric, patience,
                   best_params, metric_vals, params>>
    /\ UNCHANGED notTrainVars

\* lines 130-139: the snapshot is loaded and the model is tested
TrainLoad ==
    /\ trpc = "test"
    /\ best_params # None
    /\ params' = best_params[1]
    /\ trpc' = "done"
    /\ UNCHANGED <<epoch_num, early_stopping, epochs, best_metric, patience,
                   best_params, metric_vals>>
    /\ UNCHANGED notTrainVars

\* line 130: load_state_dict(None) raises
TrainLoadNone ==
    /\ trpc = "test"
    /\ best_params = None
    /\ trpc' = "raised"
    /\ UNCHANGED <<epoch_num, early_stopping, epochs, best_metric, patience,
                   best_params, metric_vals, params>>
    /\ UNCHANGED notTrainVars

TrainNext ==
    \/ TrainEpochImproves
    \/ TrainEpochNoGain
    \/ TrainLoopEnd
    \/ TrainLoad
    \/ TrainLoadNone

SpecTrain == TrainInit /\ [][TrainNext]_vars

\* train runs to its end: each step of it is taken when it can be
SpecTrainFair == SpecTrain /\ WF_vars(TrainNext)

\* ------------------------------------------------------ claims: train
\* C12: once train has left its epoch loop, best_metric is the largest
\* validation metric of the epochs run (0 when none was above 0), best_params
\* is the copy taken at the first epoch with that metric, best_params is None
\* exactly when no epoch had a metric above 0, and the load before testing
\* fails exactly then; otherwise the model is tested with that copy.
C12_BestSnapshot ==
    trpc \in {"test", "done", "raised"} =>
        /\ \A e \in 1..Len(metric_vals) : metric_vals[e] <= best_metric
        /\ \/ best_metric = 0
           \/ \E e \in 1..Len(metric_vals) : metric_vals[e] = best_metric
        /\ best_params = None <=> \A e \in 1..Len(metric_vals) : metric_vals[e] <= 0
        /\ best_params # None =>
              /\ best_params[1] \in 1..Len(metric_vals)
              /\ metric_vals[best_params[1]] = best_metric
              /\ \A e \in 1..(best_params[1] - 1) : metric_vals[e] < best_metric
        /\ trpc = "raised" => best_params = None
        /\ trpc = "done" => (best_params # None /\ params = best_params[1])
C12_Witness ==
    /\ trpc = "done"
    /\ \E e1, e2 \in 2..Len(metric_vals) :
          /\ e1 < e2
          /\ metric_vals[e1] = best_metric
          /\ metric_vals[e2] = best_metric
          /\ best_params = <<e1>>
          /\ params = e1
          /\ epochs > e2

\* C13, the part about every state: with run(e) the number of consecutive
\* epochs up to epoch e without a strict improvement of the validation
\* metric, at most epoch_num epochs are run, patience is run(last epoch) (0
\* after a strictly improving epoch), no epoch is run after one with
\* run(e) >= early_stopping, and the loop is left only after epoch_num epochs
\* or after such an epoch.
C13_StopsAtFirstPatience ==
    LET SetMax(S) == CHOOSE x \in S : \A y \in S : y <= x
        best(e) == SetMax({0} \cup {metric_vals[k] : k \in 1..e})
        improving(e) == metric_vals[e] > best(e - 1)
        run(e) == e - SetMax({0} \cup {k \in 1..e : improving(k)})
    IN  trpc # "idle" =>
            /\ epochs = Len(metric_vals)
            /\ epochs <= epoch_num
            /\ patience = run(epochs)
            /\ \A e \in 1..(epochs - 1) : run(e) < early_stopping
            /\ (trpc = "loop" /\ epochs > 0) => run(epochs) < early_stopping
            /\ trpc # "loop" =>
                  \/ epochs = epoch_num
                  \/ epochs > 0 /\ run(epochs) >= early_stopping

\* C13: the epoch loop of train is left after at most epoch_num epochs, right
\* after the first epoch at whose end patience >= early_stopping, and no
\* epoch is run after that; patience is 0 after every strictly improving
\* epoch.
C13_LoopTerminates ==
    /\ []C13_StopsAtFirstPatience
    /\ <>(trpc # "loop")
C13_Witness ==
    /\ trpc = "done"
    /\ early_stopping = 2
    /\ epochs = 4
    /\ epoch_num = 5
    /\ patience = 2
    /\ metric_vals[1] = 0
    /\ metric_vals[2] > 0

====
